---- MODULE Spec2Model ----
(***************************************************************************)
(* A model of oabtop (src/main.go): the cache-aware retrying fetch         *)
(* CoingeckoProvider.GetRecords, the startup sequence of main, and the     *)
(* sort/paginate state machine model.Update / sortRecords / updateTable.   *)
(*                                                                         *)
(* Strings are sequences of ASCII codes, float64 values are small          *)
(* integers.  Time is kept as the age of the snapshot file in seconds      *)
(* (time.Since(ModTime)); the code only ever tests age < 30 s, so the age  *)
(* saturates at the threshold.                                             *)
(***************************************************************************)
EXTENDS Integers, Sequences, FiniteSets, TLC

\* ------------------------------------------------------------------------
\* Program constants
\* ------------------------------------------------------------------------
FreshSeconds == 30
MaxRetries == 5
InitialDelay == 1
StatusTooManyRequests == 429
StartPage == 1
PerPage == 50

\* ------------------------------------------------------------------------
\* Bounds of the model
\* ------------------------------------------------------------------------
\* Length of the long record sets (the pagination example of the spec).
BigLen == 120
\* Number of process launches explored.
MaxLaunches == 2

\* ------------------------------------------------------------------------
\* CryptoRecord and its JSON form
\* ------------------------------------------------------------------------
StrFields == {"ID", "Name", "Symbol"}
NumFields == {"PriceUSD", "Change1h", "Change24h", "Change7d",
              "MarketCap", "Volume24h", "TotalSupply"}
RecFields == StrFields \cup NumFields

\* The zero value of CryptoRecord.
ZeroRecord == [f \in RecFields |-> IF f \in StrFields THEN <<>> ELSE 0]

CryptoRecord(id, name, symbol, price, c1, c24, c7, cap, vol, supply) ==
    [ID |-> id, Name |-> name, Symbol |-> symbol, PriceUSD |-> price,
     Change1h |-> c1, Change24h |-> c24, Change7d |-> c7,
     MarketCap |-> cap, Volume24h |-> vol, TotalSupply |-> supply]

\* A JSON value of an object member: a number, a string, or null/absent.
JNum(x) == [k |-> "num", n |-> x, s |-> <<>>]
JStr(x) == [k |-> "str", n |-> 0, s |-> x]
JNull   == [k |-> "null", n |-> 0, s |-> <<>>]

\* A JSON object of the markets array: one member per struct tag, plus the
\* members the struct has no tag for (extra), which decoding ignores.
JObject(id, name, symbol, price, c1, c24, c7, cap, vol, supply, extra) ==
    [ID |-> id, Name |-> name, Symbol |-> symbol, PriceUSD |-> price,
     Change1h |-> c1, Change24h |-> c24, Change7d |-> c7,
     MarketCap |-> cap, Volume24h |-> vol, TotalSupply |-> supply,
     extra |-> extra]

\* A JSON document: top is "array", "null", "object" (valid JSON of the
\* wrong shape), "garbage" (not JSON at all, e.g. an empty file) or "cut"
\* (the text of an array up to some element, the rest missing).
JArray(elems) == [top |-> "array", elems |-> elems]
\* The first n elements of an array whose text ends there.
JCut(doc, n) == [top |-> "cut", elems |-> SubSeq(doc.elems, 1, n)]
JOther(top)   == [top |-> top, elems |-> <<>>]

\* json.Unmarshal of one member into one struct field: a member of the right
\* type is stored, null leaves the field as it is, a member of the wrong type
\* leaves the field as it is and is an UnmarshalTypeError.
FieldKind(f) == IF f \in StrFields THEN "str" ELSE "num"

DecodeField(f, cur, j) ==
    IF j.k = "null" THEN cur
    ELSE IF j.k # FieldKind(f) THEN cur
    ELSE IF f \in StrFields THEN j.s ELSE j.n

FieldMismatch(f, j) == j.k # "null" /\ j.k # FieldKind(f)

\* Decoding of one array element into the slice element it lands on.
DecodeObject(base, obj) == [f \in RecFields |-> DecodeField(f, base[f], obj[f])]

ObjectMismatch(obj) == \E f \in RecFields : FieldMismatch(f, obj[f])

\* A decoder that takes the elements of a text that ends early.
UnmarshalAcceptsCut(doc, coins) ==
    CASE doc.top = "garbage" -> [err |-> TRUE, coins |-> coins]
      [] doc.top = "object"  -> [err |-> TRUE, coins |-> coins]
      [] doc.top = "null"    -> [err |-> FALSE, coins |-> <<>>]
      [] OTHER ->
           [err |-> \E i \in 1..Len(doc.elems) : ObjectMismatch(doc.elems[i]),
            coins |-> [i \in 1..Len(doc.elems) |->
                          DecodeObject(IF i <= Len(coins) THEN coins[i] ELSE ZeroRecord,
                                       doc.elems[i])]]

\* json.Unmarshal(data, &coins): the value of coins afterwards and whether an
\* error is returned.  Invalid JSON (checked over the whole text before
\* anything is stored) and a non-array leave coins untouched;
\* null sets it to nil; an array is decoded element by element INTO the
\* existing elements of coins (elements past its length start from the zero
\* value), the slice is cut to the array's length, and decoding goes on past
\* a type mismatch, which is reported at the end.
Unmarshal(doc, coins) ==
    CASE doc.top = "garbage" -> [err |-> TRUE, coins |-> coins]
      [] doc.top = "cut"     -> [err |-> TRUE, coins |-> coins]
      [] doc.top = "object"  -> [err |-> TRUE, coins |-> coins]
      [] doc.top = "null"    -> [err |-> FALSE, coins |-> <<>>]
      [] OTHER ->
           [err |-> \E i \in 1..Len(doc.elems) : ObjectMismatch(doc.elems[i]),
            coins |-> [i \in 1..Len(doc.elems) |->
                          DecodeObject(IF i <= Len(coins) THEN coins[i] ELSE ZeroRecord,
                                       doc.elems[i])]]

\* An encoder that loses a field: total_supply is written as null.
EncodeObjectOmitsSupply(r) ==
    [f \in RecFields |-> IF f \in StrFields THEN JStr(r[f])
                         ELSE IF f = "TotalSupply" THEN JNull ELSE JNum(r[f])]
        @@ [extra |-> JNull]

\* json.Marshal(coins): every field of every record, under its tag.
EncodeObject(r) ==
    [f \in RecFields |-> IF f \in StrFields THEN JStr(r[f]) ELSE JNum(r[f])]
        @@ [extra |-> JNull]

Marshal(coins) == JArray([i \in 1..Len(coins) |-> EncodeObject(coins[i])])

\* ------------------------------------------------------------------------
\* Documents the environment can hold or send
\* ------------------------------------------------------------------------
\* ASCII: "A" = 65, "B" = 66, "a" = 97, "b" = 98, "c" = 99, "i" = 105, "n" = 110.
ObjBitcoin ==
    JObject(JStr(<<98>>), JStr(<<66, 105>>), JStr(<<98>>), JNum(3), JNum(1),
            JNum(-1), JNum(2), JNum(5), JNum(2), JNull, JNum(1))
ObjBnb ==
    JObject(JStr(<<110>>), JStr(<<98, 110>>), JStr(<<110>>), JNum(2), JNum(-1),
            JNum(1), JNum(2), JNum(3), JNum(3), JNum(1), JNull)
ObjAda ==
    JObject(JStr(<<97>>), JStr(<<97>>), JStr(<<97>>), JNum(1), JNum(1),
            JNum(2), JNum(-1), JNum(1), JNum(1), JNum(2), JNull)
\* A coin whose name is the empty string.
ObjNameless ==
    JObject(JStr(<<99>>), JStr(<<>>), JStr(<<99>>), JNum(1), JNum(0),
            JNum(0), JNum(0), JNum(2), JNum(0), JNum(0), JNull)
\* An object whose market_cap is a string: an UnmarshalTypeError.
ObjMismatch ==
    JObject(JStr(<<111>>), JStr(<<79>>), JStr(<<111>>), JNum(9), JNum(9),
            JNum(9), JNum(9), JStr(<<57>>), JNum(9), JNum(9), JNull)

\* Three coins that differ in every field ("h" = 104, "M" = 77, "l" = 108).
ObjHigh ==
    JObject(JStr(<<104>>), JStr(<<104>>), JStr(<<104>>), JNum(3), JNum(1),
            JNum(-1), JNum(2), JNum(9), JNum(2), JNum(1), JNull)
ObjMid ==
    JObject(JStr(<<109>>), JStr(<<77>>), JStr(<<109>>), JNum(1), JNum(2),
            JNum(1), JNum(-1), JNum(8), JNum(3), JNum(2), JNull)
ObjLow ==
    JObject(JStr(<<108>>), JStr(<<108>>), JStr(<<108>>), JNum(2), JNum(-1),
            JNum(2), JNum(1), JNum(7), JNum(1), JNum(3), JNull)

\* The API's order (market cap descending).
DocRanked == JArray(<<ObjBitcoin, ObjBnb, ObjAda>>)
\* Market caps 5, 1, 3.
DocShuffled == JArray(<<ObjBitcoin, ObjAda, ObjBnb>>)
DocNameless == JArray(<<ObjBitcoin, ObjNameless>>)
DocEmpty == JArray(<<>>)
DocMismatch == JArray(<<ObjMismatch>>)
DocGarbage == JOther("garbage")
DocErrorObject == JOther("object")
\* A full page: PerPage coins, market cap descending.
DocFullPage ==
    JArray([i \in 1..PerPage |->
               IF i = 1 THEN ObjHigh ELSE IF i = PerPage THEN ObjLow ELSE ObjMid])
\* More coins than one page holds.
DocBig ==
    JArray([i \in 1..BigLen |->
               IF i = 1 THEN ObjHigh ELSE IF i = BigLen THEN ObjLow ELSE ObjMid])

\* What the snapshot file may hold when the first process starts.
CacheDocs == {DocGarbage, DocMismatch, DocRanked}
\* Bodies of the responses of the markets endpoint.
NetBodies == {DocErrorObject, DocShuffled, DocNameless, DocEmpty}
\* Snapshots the interactive loop is explored on.
ViewDocs == {DocRanked, DocShuffled, DocNameless, DocEmpty, DocFullPage, DocBig}

\* The snapshot file crypto_cache.json: os.Stat succeeds iff exists,
\* os.ReadFile iff readable; age is time.Since(ModTime) in seconds.
NoFile == [exists |-> FALSE, readable |-> FALSE, content |-> DocGarbage, age |-> 0]
File(doc, readable, age) ==
    [exists |-> TRUE, readable |-> readable, content |-> doc, age |-> age]

Min(a, b) == IF a < b THEN a ELSE b

\* The file after d more seconds.
Aged(file, d) ==
    IF file.exists THEN [file EXCEPT !.age = Min(file.age + d, FreshSeconds)] ELSE file

InitialFiles ==
    {NoFile, File(DocRanked, FALSE, 0)}
        \cup {File(doc, TRUE, age) : doc \in CacheDocs, age \in {0, FreshSeconds - 1, FreshSeconds}}

\* What p.client.Get returns: a transport error (resp = nil, err # nil) or a
\* response with a status, a body and whether io.ReadAll of the body succeeds.
NoResponse == [err |-> FALSE, status |-> 0, body |-> DocGarbage, readOk |-> FALSE]
TransportError == [err |-> TRUE, status |-> 0, body |-> DocGarbage, readOk |-> FALSE]
Response(status, body, readOk) ==
    [err |-> FALSE, status |-> status, body |-> body, readOk |-> readOk]

GetOutcomes ==
    {TransportError,
     Response(StatusTooManyRequests, DocErrorObject, TRUE),
     Response(StatusTooManyRequests, DocShuffled, TRUE),
     Response(500, DocErrorObject, TRUE),
     Response(200, DocShuffled, FALSE)}
        \cup {Response(200, b, TRUE) : b \in NetBodies}

\* Outcomes of os.WriteFile: written, refused before the file is touched,
\* or failed after the file was truncated.
WriteOutcomes == {"ok", "denied", "cut"}

Written(file, doc, outcome) ==
    CASE outcome = "ok" ->
           File(doc, IF file.exists THEN file.readable ELSE TRUE, 0)
      [] outcome = "cut" ->
           File(DocGarbage, IF file.exists THEN file.readable ELSE TRUE, 0)
      [] OTHER -> file

\* ------------------------------------------------------------------------
\* The table and the model struct
\* ------------------------------------------------------------------------
ColumnTitles ==
    <<"Rank", "Name", "Symbol", "Price (USD)", "1h", "24h", "7d",
      "Market Cap", "Volume (24h)", "Total Supply">>

\* The nine sort keys of model.Update.
SortKeys == {"r", "n", "p", "1", "2", "7", "m", "a", "t"}

\* getSortArrow
getSortArrow(asc) == IF asc THEN "up" ELSE "down"

\* The columns main builds: every title plain.
PlainColumns == [c \in 1..Len(ColumnTitles) |-> [title |-> ColumnTitles[c], arrow |-> ""]]

\* The switch of updateTable: which column a sort key decorates (1-based).
SortColumn(k) ==
    CASE k = "r" -> 1
      [] k = "n" -> 2
      [] k = "p" -> 4
      [] k = "1" -> 5
      [] k = "2" -> 6
      [] k = "7" -> 7
      [] k = "m" -> 8
      [] k = "a" -> 9
      [] k = "t" -> 10
      [] OTHER -> 0

DecoratedColumns(sortBy, sortAsc) ==
    [c \in 1..Len(ColumnTitles) |->
        [title |-> ColumnTitles[c],
         arrow |-> IF c = SortColumn(sortBy) THEN getSortArrow(sortAsc) ELSE ""]]

\* strings.ToUpper / strings.ToLower on ASCII codes.
UpperCode(c) == IF c >= 97 /\ c <= 122 THEN c - 32 ELSE c
LowerCode(c) == IF c >= 65 /\ c <= 90 THEN c + 32 ELSE c
ToUpper(str) == [i \in 1..Len(str) |-> UpperCode(str[i])]
ToLower(str) == [i \in 1..Len(str) |-> LowerCode(str[i])]

\* colorizeChange: red (9) below zero, green (10) otherwise.
colorizeChange(change) == [color |-> IF change < 0 THEN 9 ELSE 10, text |-> change]

\* One table.Row: the rank cell and the formatted fields of the record.
Row(rank, record) ==
    [Rank |-> rank, Name |-> record.Name, Symbol |-> ToUpper(record.Symbol),
     PriceUSD |-> record.PriceUSD,
     Change1h |-> colorizeChange(record.Change1h),
     Change24h |-> colorizeChange(record.Change24h),
     Change7d |-> colorizeChange(record.Change7d),
     MarketCap |-> record.MarketCap, Volume24h |-> record.Volume24h,
     TotalSupply |-> record.TotalSupply]

\* The table.Model: columns, rows and focus (its cursor, viewport and size
\* are the library's own and are left out).
Table(columns, rows, focused) ==
    [columns |-> columns, rows |-> rows, focused |-> focused]

ZeroTable == Table(<<>>, <<>>, FALSE)

\* The rows main builds: one per record, all of them.
StartupRows(recs) == [i \in 1..Len(recs) |-> Row(i, recs[i])]

\* The table main builds with table.New: plain columns, focused.
StartupTable(recs) == Table(PlainColumns, StartupRows(recs), TRUE)

\* updateTable: the window of the current page.
WindowStart(pg, pp) == (pg - 1) * pp
WindowEnd(recs, pg, pp) ==
    IF WindowStart(pg, pp) + pp > Len(recs) THEN Len(recs) ELSE WindowStart(pg, pp) + pp

WindowRows(recs, pg, pp) ==
    [i \in 1..(WindowEnd(recs, pg, pp) - WindowStart(pg, pp)) |->
        Row(i + WindowStart(pg, pp), recs[i + WindowStart(pg, pp)])]

\* updateTable: SetColumns with the arrow on the sorted column, SetRows with
\* the rows of m.records[start:end].
updateTable(tbl, recs, pg, pp, by, asc) ==
    [tbl EXCEPT !.columns = DecoratedColumns(by, asc),
                !.rows = WindowRows(recs, pg, pp)]

\* ------------------------------------------------------------------------
\* sortRecords
\* ------------------------------------------------------------------------
\* The numeric field each comparator reads.
SortField(k) ==
    CASE k = "r" -> "MarketCap"
      [] k = "p" -> "PriceUSD"
      [] k = "1" -> "Change1h"
      [] k = "2" -> "Change24h"
      [] k = "7" -> "Change7d"
      [] k = "m" -> "MarketCap"
      [] k = "a" -> "Volume24h"
      [] k = "t" -> "TotalSupply"

\* strings.ToLower(name)[0]
FirstLower(name) == ToLower(name)[1]

\* The value a comparator compares.
SortValue(k, r) == IF k = "n" THEN FirstLower(r.Name) ELSE r[SortField(k)]

\* A comparator that ignores the direction.
LessAscending(k, asc, a, b) == SortValue(k, a) < SortValue(k, b)

\* The less function of sort.Slice for key k and direction asc.
Less(k, asc, a, b) ==
    IF asc THEN SortValue(k, a) < SortValue(k, b) ELSE SortValue(k, a) > SortValue(k, b)

\* Indexing the first byte of an empty name panics; sort.Slice calls less on
\* every element as soon as there are two.
SortPanics(recs, k) ==
    /\ k = "n"
    /\ Len(recs) >= 2
    /\ \E i \in 1..Len(recs) : recs[i].Name = <<>>

Range(seq) == {seq[i] : i \in 1..Len(seq)}

\* seq without its first occurrence of x.
RemoveOne(seq, x) ==
    LET at == CHOOSE i \in 1..Len(seq) : seq[i] = x /\ \A j \in 1..(i - 1) : seq[j] # x
    IN  SubSeq(seq, 1, at - 1) \o SubSeq(seq, at + 1, Len(seq))

\* Every order of the elements of seq.
RECURSIVE Arrangements(_)
Arrangements(seq) ==
    IF Cardinality(Range(seq)) <= 1 THEN {seq}
    ELSE UNION {{<<x>> \o rest : rest \in Arrangements(RemoveOne(seq, x))} : x \in Range(seq)}

\* sort.Slice(records, less): the slice ends up in some order that less
\* agrees with; sort.Slice is not stable, so records that compare equal may
\* come out in any order.  rank[d] counts the different records less puts
\* before d; the result lists the ranks in order, each group in any order.
SortSlice(recs, k, asc) ==
    LET distinct == Range(recs)
        rank == [d \in distinct |-> Cardinality({e \in distinct : Less(k, asc, e, d)})]
        Group(v) == SelectSeq(recs, LAMBDA r : rank[r] = v)
        RECURSIVE From(_)
        From(v) ==
            IF v >= Cardinality(distinct) THEN {<<>>}
            ELSE {g \o rest : g \in Arrangements(Group(v)), rest \in From(v + 1)}
    IN  From(0)

\* ------------------------------------------------------------------------
\* State
\* ------------------------------------------------------------------------
VARIABLES
    cache,      \* the snapshot file
    stored,     \* the records of the last complete snapshot write, while the file holds them
    other,      \* another process of the program, as far as it writes the snapshot
    launches,   \* processes started so far
    pc,         \* where the process is: "off", "stat", "read", "fetch", "post",
                \* "returned", "ui", "exited", "fatal", "crashed"
    request,    \* the arguments of GetRecords
    coins,      \* GetRecords: var coins []CryptoRecord
    retries,    \* GetRecords: loop counter
    delay,      \* GetRecords: loop delay, in seconds
    resp,       \* GetRecords: resp and err of the last p.client.Get
    result,     \* what GetRecords returned
    log,        \* entries this process appended to the log file
    hist,       \* what the current GetRecords call did so far
    table,      \* model.table
    loading,    \* model.loading
    records,    \* model.records
    page,       \* model.page
    perPage,    \* model.perPage
    sortBy,     \* model.sortBy
    sortAsc,    \* model.sortAsc
    handled     \* whether Update has handled a left, right or sort key

provider == <<request, coins, retries, delay, resp, result, hist>>
model == <<table, loading, records, page, perPage, sortBy, sortAsc, handled>>
vars == <<cache, stored, other, launches, pc, request, coins, retries, delay, resp, result, log, hist,
          table, loading, records, page, perPage, sortBy, sortAsc, handled>>

Ended == {"off", "exited", "fatal", "crashed"}

NothingStored == [valid |-> FALSE, recs |-> <<>>]

\* The other process's os.WriteFile(cache, data, 0644): not begun, the file
\* opened with O_TRUNC, part of data written, or all of it.
NoWriter == [pc |-> "idle", recs |-> <<>>]

NoResult == [err |-> "pending", recs |-> <<>>]
Ok(recs) == [err |-> "none", recs |-> recs]
\* An error return that still hands out a record.
FailedWithRecords(kind) == [err |-> kind, recs |-> <<ZeroRecord>>]

\* return nil, err
Failed(kind) == [err |-> kind, recs |-> <<>>]

\* A return that reports the failure of os.WriteFile.
AfterWriteChecked(recs, w) == IF w = "ok" THEN Ok(recs) ELSE Failed("write")

\* _ = os.WriteFile(...): its error is dropped, and coins, nil is returned.
AfterWrite(recs, w) == Ok(recs)

\* calls: GetRecords invocations of this process; attempts: p.client.Get
\* calls; failures: attempts that failed or were rate-limited; sleeps: the
\* delays slept, in order; writes: os.WriteFile calls; decoded: whether a
\* response body was handed to json.Unmarshal; entry: the snapshot file as
\* the call found it; stored: whether the call wrote the whole snapshot;
\* qualifiedAt: the number of the attempt that ended the loop (0: none did).
NoHist ==
    [calls |-> 0, attempts |-> 0, failures |-> 0, sleeps |-> <<>>, writes |-> 0,
     decoded |-> FALSE, entry |-> NoFile, stored |-> FALSE, qualifiedAt |-> 0]

\* A logger that never takes the error branch.
LogEntryNeverError(operation, isErr) == [op |-> operation, error |-> FALSE, count |-> -1]

\* logOperation(operation, result, err): one line, with the error if there
\* is one and the result otherwise; count is the number of records a
\* summary result names (-1: the line names none).
LogEntry(operation, isErr) == [op |-> operation, error |-> isErr, count |-> -1]

\* logOperation(operation, fmt.Sprintf("Fetched %d records...", len(coins)), nil)
LogSummary(operation, recs) == [op |-> operation, error |-> FALSE, count |-> Len(recs)]

\* The zero value of the model struct: what the variables hold while there
\* is no interactive loop.
ZeroModel ==
    /\ table = ZeroTable
    /\ loading = FALSE
    /\ records = <<>>
    /\ page = 0
    /\ perPage = 0
    /\ sortBy = ""
    /\ sortAsc = FALSE
    /\ handled = FALSE

\* The same of the next state: the process's model is gone, or not yet there.
NoModel ==
    /\ table' = ZeroTable
    /\ loading' = FALSE
    /\ records' = <<>>
    /\ page' = 0
    /\ perPage' = 0
    /\ sortBy' = ""
    /\ sortAsc' = FALSE
    /\ handled' = FALSE

Init ==
    /\ cache \in InitialFiles
    /\ stored = NothingStored
    /\ other = NoWriter
    /\ launches = 0
    /\ pc = "off"
    /\ request = [page |-> 0, perPage |-> 0]
    /\ coins = <<>>
    /\ retries = 0
    /\ delay = InitialDelay
    /\ resp = NoResponse
    /\ result = NoResult
    /\ log = <<>>
    /\ hist = NoHist
    /\ ZeroModel

\* ------------------------------------------------------------------------
\* main up to the call, and CoingeckoProvider.GetRecords
\* ------------------------------------------------------------------------
\* A process starts: main runs to provider.GetRecords(1, 50).
Launch ==
    /\ pc \in Ended
    /\ launches < MaxLaunches
    /\ launches' = launches + 1
    /\ pc' = "stat"
    /\ request' = [page |-> StartPage, perPage |-> PerPage]
    /\ coins' = <<>>
    /\ retries' = 0
    /\ delay' = InitialDelay
    /\ resp' = NoResponse
    /\ result' = NoResult
    /\ log' = <<>>
    /\ hist' = [NoHist EXCEPT !.calls = 1, !.entry = cache]
    /\ NoModel
    /\ UNCHANGED <<cache, stored, other>>

\* Time passes while no process runs.
Elapse ==
    /\ pc \in Ended
    /\ cache.exists
    /\ cache.age < FreshSeconds
    /\ cache' = Aged(cache, FreshSeconds - 1)
    /\ UNCHANGED <<stored, other, launches, pc, provider, log, model>>

\* A freshness test that is one second short.
FreshShort(file) == file.age < FreshSeconds - 1

\* time.Since(cacheInfo.ModTime()) < 30*time.Second
Fresh(file) == file.age < FreshSeconds

\* A cache that only serves the first page.
CacheStatFirstPageOnly ==
    /\ pc = "stat"
    /\ pc' = IF cache.exists /\ Fresh(cache) /\ request.page = StartPage
             THEN "read" ELSE "fetch"
    /\ UNCHANGED <<cache, stored, other, launches, provider, log, model>>

\* os.Stat(cache) and the freshness test.
CacheStat ==
    /\ pc = "stat"
    /\ pc' = IF cache.exists /\ Fresh(cache) THEN "read" ELSE "fetch"
    /\ UNCHANGED <<cache, stored, other, launches, provider, log, model>>

\* os.ReadFile(cache) and json.Unmarshal(data, &coins): a hit returns, and
\* anything else falls through to the fetch with whatever coins now holds.
CacheRead ==
    /\ pc = "read"
    /\ IF cache.readable
       THEN LET u == Unmarshal(cache.content, coins) IN
            /\ coins' = u.coins
            /\ IF u.err
               THEN /\ pc' = "fetch"
                    /\ UNCHANGED <<result, log>>
               ELSE /\ pc' = "returned"
                    /\ result' = Ok(u.coins)
                    /\ log' = Append(log, LogSummary("Cache Hit", u.coins))
       ELSE /\ pc' = "fetch"
            /\ UNCHANGED <<coins, result, log>>
    /\ UNCHANGED <<cache, stored, other, launches, request, retries, delay, resp, hist, model>>

\* A backoff that grows by one second instead of doubling.
NextDelayLinear(d) == d + 1

\* The post statement of the retry loop: delay*2.
NextDelay(d) == d * 2

\* The break condition of the retry loop: the response ends the loop.
Qualifies(r) == ~r.err /\ r.status # StatusTooManyRequests

\* One iteration of the retry loop: p.client.Get, then break or
\* time.Sleep(delay) and the loop's post statement.
HttpGet ==
    /\ pc = "fetch"
    /\ retries < MaxRetries
    /\ \E out \in GetOutcomes :
         /\ resp' = out
         /\ IF Qualifies(out)
            THEN /\ pc' = "post"
                 /\ hist' = [hist EXCEPT !.attempts = @ + 1,
                                         !.qualifiedAt = hist.attempts + 1]
                 /\ UNCHANGED <<retries, delay, cache>>
            ELSE /\ hist' = [hist EXCEPT !.attempts = @ + 1, !.failures = @ + 1,
                                         !.sleeps = Append(@, delay)]
                 /\ cache' = Aged(cache, delay)
                 /\ retries' = retries + 1
                 /\ delay' = NextDelay(delay)
                 /\ pc' = IF retries + 1 < MaxRetries THEN "fetch" ELSE "post"
    /\ UNCHANGED <<stored, other, launches, request, coins, result, log, model>>

\* Everything after the loop: the error check, io.ReadAll, json.Unmarshal of
\* the body, the snapshot write and the return.
PostFetch ==
    /\ pc = "post"
    /\ pc' = "returned"
    /\ IF resp.err
       THEN /\ result' = Failed("network")
            /\ log' = Append(log, LogEntry("API Request", TRUE))
            /\ UNCHANGED <<coins, hist, cache, stored>>
       ELSE IF ~resp.readOk
       THEN /\ result' = Failed("read")
            /\ log' = Append(log, LogEntry("Read Response Body", TRUE))
            /\ UNCHANGED <<coins, hist, cache, stored>>
       ELSE LET u == Unmarshal(resp.body, coins) IN
            /\ coins' = u.coins
            /\ IF u.err
               THEN /\ result' = Failed("decode")
                    /\ log' = log \o <<LogEntry("JSON Response", FALSE),
                                       LogEntry("Unmarshal Response", TRUE)>>
                    /\ hist' = [hist EXCEPT !.decoded = TRUE]
                    /\ UNCHANGED <<cache, stored>>
               ELSE /\ \E w \in WriteOutcomes :
                         /\ cache' = Written(cache, Marshal(u.coins), w)
                         /\ stored' = CASE w = "ok" -> [valid |-> TRUE, recs |-> u.coins]
                                         [] w = "cut" -> NothingStored
                                         [] OTHER -> stored
                         /\ hist' = [hist EXCEPT !.decoded = TRUE, !.writes = @ + 1,
                                                 !.stored = (w = "ok")]
                         /\ result' = AfterWrite(u.coins, w)
                    /\ log' = log \o <<LogEntry("JSON Response", FALSE),
                                       LogSummary("Fetch Records", u.coins)>>
    /\ UNCHANGED <<other, launches, request, retries, delay, resp, model>>

\* A main that ignores the error of GetRecords.
MainNeverFails == FALSE

\* main: if err != nil
MainFails == result.err # "none"

\* main after the call: a failed fetch is logged and fatal.
MainFatal ==
    /\ pc = "returned"
    /\ MainFails
    /\ pc' = "fatal"
    /\ log' = Append(log, LogEntry("Main - Get Records", TRUE))
    /\ UNCHANGED <<cache, stored, other, launches, provider, model>>

\* main after the call: the table of all records, the model value, and the
\* interactive loop.  The frame of GetRecords is gone; only the count of
\* calls is kept.
MainStart ==
    /\ pc = "returned"
    /\ ~MainFails
    /\ pc' = "ui"
    /\ table' = StartupTable(result.recs)
    /\ loading' = FALSE
    /\ records' = result.recs
    /\ page' = StartPage
    /\ perPage' = PerPage
    /\ sortBy' = "r"
    /\ sortAsc' = TRUE
    /\ handled' = FALSE
    /\ coins' = <<>>
    /\ retries' = 0
    /\ delay' = InitialDelay
    /\ resp' = NoResponse
    /\ hist' = [NoHist EXCEPT !.calls = hist.calls]
    /\ UNCHANGED <<cache, stored, other, launches, request, result, log>>

\* ------------------------------------------------------------------------
\* model.Update, one action per message
\* ------------------------------------------------------------------------
\* The process ends (tea.Quit, or a panic) and its memory with it.
ProcessEnds(how) ==
    /\ pc' = how
    /\ NoModel
    /\ result' = NoResult
    /\ UNCHANGED <<cache, stored, other, launches, request, coins, retries, delay, resp, log, hist>>

\* A guard of "right" that also passes on a page that ends with the records.
HasNextPageInclusive == page * perPage <= Len(records)

\* The guard of "right": this page does not reach the end of the records.
HasNextPage == page * perPage < Len(records)

\* "right"
KeyRight ==
    /\ pc = "ui"
    /\ IF HasNextPage
       THEN /\ page' = page + 1
            /\ table' = updateTable(table, records, page', perPage, sortBy, sortAsc)
       ELSE UNCHANGED <<page, table>>
    /\ handled' = TRUE
    /\ UNCHANGED <<cache, stored, other, launches, pc, provider, log,
                   loading, records, perPage, sortBy, sortAsc>>

\* The guard of "left".
HasPreviousPage == page > 1

\* "left"
KeyLeft ==
    /\ pc = "ui"
    /\ IF HasPreviousPage
       THEN /\ page' = page - 1
            /\ table' = updateTable(table, records, page', perPage, sortBy, sortAsc)
       ELSE UNCHANGED <<page, table>>
    /\ handled' = TRUE
    /\ UNCHANGED <<cache, stored, other, launches, pc, provider, log,
                   loading, records, perPage, sortBy, sortAsc>>

\* A toggle that never flips.
ToggledAscAlwaysUp(by, asc, k) == TRUE

\* The direction after a sort key: flipped on the active key, ascending on
\* another.
ToggledAsc(by, asc, k) == IF by = k THEN ~asc ELSE TRUE

\* One of "r", "n", "p", "1", "2", "7", "m", "a", "t": toggle, sortRecords,
\* updateTable.  A panic in the comparator ends the process.
KeySortOn(k) ==
    /\ pc = "ui"
    /\ IF SortPanics(records, k)
       THEN ProcessEnds("crashed")
       ELSE /\ sortBy' = k
            /\ sortAsc' = ToggledAsc(sortBy, sortAsc, k)
            /\ records' \in SortSlice(records, k, sortAsc')
            /\ table' = updateTable(table, records', page, perPage, sortBy', sortAsc')
            /\ handled' = TRUE
            /\ UNCHANGED <<cache, stored, other, launches, pc, provider, log, loading, page, perPage>>

KeySort == \E k \in SortKeys : KeySortOn(k)

\* An "esc" that also goes back to the first page.
KeyEscResetsPage ==
    /\ pc = "ui"
    /\ table' = [table EXCEPT !.focused = ~@]
    /\ page' = StartPage
    /\ UNCHANGED <<cache, stored, other, launches, pc, provider, log,
                   loading, records, perPage, sortBy, sortAsc, handled>>

\* "esc": the table's focus is toggled.
KeyEsc ==
    /\ pc = "ui"
    /\ table' = [table EXCEPT !.focused = ~@]
    /\ UNCHANGED <<cache, stored, other, launches, pc, provider, log,
                   loading, records, page, perPage, sortBy, sortAsc, handled>>

\* "enter": the name cell of the selected row is printed; with no rows
\* SelectedRow() is nil and indexing it panics.
KeyEnter ==
    /\ pc = "ui"
    /\ IF table.rows = <<>> THEN ProcessEnds("crashed") ELSE UNCHANGED vars

\* "q", "ctrl+c": tea.Quit.
KeyQuit ==
    /\ pc = "ui"
    /\ ProcessEnds("exited")

\* Any other key goes to table.Update only (cursor movement).
KeyOther ==
    /\ pc = "ui"
    /\ UNCHANGED vars

\* spinner.TickMsg: the spinner advances only while loading, which no
\* code sets.
Tick ==
    /\ pc = "ui"
    /\ ~loading
    /\ UNCHANGED vars

\* tea.WindowSizeMsg: the table is resized.
Resize ==
    /\ pc = "ui"
    /\ UNCHANGED vars

Next ==
    \/ Launch
    \/ Elapse
    \/ CacheStat
    \/ CacheRead
    \/ HttpGet
    \/ PostFetch
    \/ MainFatal
    \/ MainStart
    \/ KeyRight
    \/ KeyLeft
    \/ KeySort
    \/ KeyEsc
    \/ KeyEnter
    \/ KeyQuit
    \/ KeyOther
    \/ Tick
    \/ Resize

Spec == Init /\ [][Next]_vars

\* ------------------------------------------------------------------------
\* The interactive loop on its own: a process whose GetRecords call found a
\* fresh snapshot (one of ViewDocs) and returned it.
\* ------------------------------------------------------------------------
InitView ==
    \E doc \in ViewDocs :
        /\ cache = File(doc, TRUE, 0)
        /\ stored = NothingStored
        /\ other = NoWriter
        /\ launches = MaxLaunches
        /\ pc = "returned"
        /\ request = [page |-> StartPage, perPage |-> PerPage]
        /\ coins = Unmarshal(doc, <<>>).coins
        /\ retries = 0
        /\ delay = InitialDelay
        /\ resp = NoResponse
        /\ result = Ok(Unmarshal(doc, <<>>).coins)
        /\ log = <<LogSummary("Cache Hit", Unmarshal(doc, <<>>).coins)>>
        /\ hist = [NoHist EXCEPT !.calls = 1, !.entry = File(doc, TRUE, 0)]
        /\ ZeroModel

NextView ==
    \/ MainStart
    \/ KeyRight
    \/ KeyLeft
    \/ KeySort
    \/ KeyEsc
    \/ KeyEnter
    \/ KeyQuit
    \/ KeyOther
    \/ Tick
    \/ Resize

SpecView == InitView /\ [][NextView]_vars

\* ------------------------------------------------------------------------
\* One GetRecords call whose cache read overlaps the snapshot write of
\* another process of the program.  The other process runs the write of
\* GetRecords, os.WriteFile(cache, data, 0644): the file is opened with
\* O_TRUNC, then data is written, and what is written so far can be seen.
\* os.ReadFile returns the content the file has at the moment of the read.
\* ------------------------------------------------------------------------
\* The records of the snapshot an earlier call wrote.
WrittenBefore == {Unmarshal(DocRanked, <<>>).coins}
\* The records the other process fetched and writes.
OtherWrites == {Unmarshal(DocShuffled, <<>>).coins, Unmarshal(DocNameless, <<>>).coins}

\* While this process is at its cache read.
AtCacheRead == pc \in {"stat", "read"}

\* The other process opens the file with O_TRUNC: the file exists and is empty.
OtherTruncate ==
    /\ AtCacheRead
    /\ other.pc = "idle"
    /\ \E recs \in OtherWrites : other' = [pc |-> "truncated", recs |-> recs]
    /\ cache' = File(DocGarbage, IF cache.exists THEN cache.readable ELSE TRUE, 0)
    /\ stored' = NothingStored
    /\ UNCHANGED <<launches, pc, provider, log, model>>

\* Part of the other process's data is in the file: the text up to some element.
OtherPartial ==
    /\ AtCacheRead
    /\ other.pc = "truncated"
    /\ other.recs # <<>>
    /\ \E n \in 0..(Len(other.recs) - 1) :
         cache' = [cache EXCEPT !.content = JCut(Marshal(other.recs), n), !.age = 0]
    /\ other' = [other EXCEPT !.pc = "partial"]
    /\ UNCHANGED <<stored, launches, pc, provider, log, model>>

\* All of the other process's data is in the file.
OtherWrite ==
    /\ AtCacheRead
    /\ other.pc \in {"truncated", "partial"}
    /\ cache' = [cache EXCEPT !.content = Marshal(other.recs), !.age = 0]
    /\ other' = [other EXCEPT !.pc = "done"]
    /\ stored' = [valid |-> TRUE, recs |-> other.recs]
    /\ UNCHANGED <<launches, pc, provider, log, model>>

InitRace ==
    /\ cache \in {NoFile} \cup
                 {File(Marshal(recs), TRUE, age) :
                     recs \in WrittenBefore, age \in {0, FreshSeconds - 1, FreshSeconds}}
    /\ stored = NothingStored
    /\ other = NoWriter
    /\ launches = MaxLaunches
    /\ pc = "stat"
    /\ request = [page |-> StartPage, perPage |-> PerPage]
    /\ coins = <<>>
    /\ retries = 0
    /\ delay = InitialDelay
    /\ resp = NoResponse
    /\ result = NoResult
    /\ log = <<>>
    /\ hist = [NoHist EXCEPT !.calls = 1, !.entry = cache]
    /\ ZeroModel

NextRace ==
    \/ CacheStat
    \/ CacheRead
    \/ HttpGet
    \/ PostFetch
    \/ OtherTruncate
    \/ OtherPartial
    \/ OtherWrite

SpecRace == InitRace /\ [][NextRace]_vars

\* ------------------------------------------------------------------------
\* GetRecords on its own, called with any page and page size.
\* ------------------------------------------------------------------------
Pages == {1, 2}
PageSizes == {50, 100}

InitCall ==
    /\ cache \in InitialFiles
    /\ stored = NothingStored
    /\ other = NoWriter
    /\ launches = MaxLaunches
    /\ pc = "stat"
    /\ request \in [page : Pages, perPage : PageSizes]
    /\ coins = <<>>
    /\ retries = 0
    /\ delay = InitialDelay
    /\ resp = NoResponse
    /\ result = NoResult
    /\ log = <<>>
    /\ hist = [NoHist EXCEPT !.calls = 1, !.entry = cache]
    /\ ZeroModel

NextCall ==
    \/ CacheStat
    \/ CacheRead
    \/ HttpGet
    \/ PostFetch

SpecCall == InitCall /\ [][NextCall]_vars

\* ------------------------------------------------------------------------
\* Properties of CoingeckoProvider.GetRecords
\* ------------------------------------------------------------------------
\* The snapshot as the call found it is younger than 30 seconds.
EntryFresh == hist.entry.exists /\ hist.entry.age < FreshSeconds

\* The snapshot as the call found it can be read and decodes as a record array.
EntryDecodes == hist.entry.readable /\ ~Unmarshal(hist.entry.content, <<>>).err

\* What a failed decode of the snapshot leaves in coins.
Residual ==
    IF EntryFresh /\ hist.entry.readable
    THEN Unmarshal(hist.entry.content, <<>>).coins
    ELSE <<>>

\* What the code makes of the response that ended the retry loop.
FetchDecode ==
    IF ~resp.readOk THEN Failed("read")
    ELSE LET u == Unmarshal(resp.body, Residual) IN
         IF u.err THEN Failed("decode") ELSE Ok(u.coins)

\* The backoff delays before attempts 2 .. k+1: 1, 2, ..., 2^(k-1).
Delays(k) == [i \in 1..k |-> InitialDelay * 2^(i - 1)]

RECURSIVE SumSeq(_)
SumSeq(seq) == IF seq = <<>> THEN 0 ELSE Head(seq) + SumSeq(Tail(seq))

\* C1: a GetRecords call that finds a snapshot younger than 30 seconds whose
\* content is read and decodes as a record array returns exactly the decoded
\* snapshot without error, makes no HTTP attempt, sleeps no backoff and leaves
\* the snapshot file as it was.
C1_CacheShortCircuit ==
    (pc = "returned" /\ EntryFresh /\ EntryDecodes) =>
        /\ result = Ok(Unmarshal(hist.entry.content, <<>>).coins)
        /\ hist.attempts = 0
        /\ hist.sleeps = <<>>
        /\ hist.writes = 0
        /\ cache = hist.entry

\* A call has returned the three records of a 29 seconds old snapshot.
C1_Witness ==
    /\ pc = "returned"
    /\ EntryFresh /\ EntryDecodes
    /\ hist.entry.age = FreshSeconds - 1
    /\ Len(result.recs) = 3
    /\ hist.attempts = 0

C3_RetryUntilSuccess ==
    /\ hist.qualifiedAt # 0 =>
          /\ hist.attempts = hist.qualifiedAt
          /\ hist.failures = hist.qualifiedAt - 1
          /\ pc # "fetch"
    /\ (pc = "returned" /\ hist.qualifiedAt # 0) =>
          /\ hist.failures \in 0..(MaxRetries - 1)
          /\ hist.attempts = hist.failures + 1
          /\ hist.sleeps = Delays(hist.failures)
          /\ SumSeq(hist.sleeps) = 2^(hist.failures) - 1
          /\ result = FetchDecode

\* Four attempts failed, the fifth brought records: 15 seconds slept.
C3_Witness ==
    /\ pc = "returned"
    /\ hist.qualifiedAt = MaxRetries
    /\ hist.sleeps = <<1, 2, 4, 8>>
    /\ result.err = "none" /\ Len(result.recs) = 3

\* C4: when all five attempts fail, each by a transport error or an HTTP 429
\* response, GetRecords makes no sixth attempt, returns a network error with
\* no records, decodes no response body and does not write the snapshot.
C4_ExhaustedRetries ==
    (pc = "returned" /\ hist.failures = MaxRetries) =>
        /\ hist.attempts = MaxRetries
        /\ result = Failed("network")
        /\ ~hist.decoded
        /\ hist.writes = 0

\* ------------------------------------------------------------------------
\* Properties of the interactive loop
\* ------------------------------------------------------------------------
\* C5: the loop starts with (rank, ascending); a sort event for key k makes k
\* the active key and flips the direction when k was already active, and
\* makes k active with direction ascending when another key was, whatever
\* the direction before.
C5_SortToggle ==
    /\ [][MainStart => (sortBy' = "r" /\ sortAsc' = TRUE)]_vars
    /\ [][\A k \in SortKeys :
            (KeySortOn(k) /\ pc' = "ui") =>
                /\ sortBy' = k
                /\ sortAsc' = (IF sortBy = k THEN ~sortAsc ELSE TRUE)]_vars

\* Price is the active key and descending: "p" was pressed twice.
C5_Witness == pc = "ui" /\ sortBy = "p" /\ ~sortAsc

\* The field compared for each key other than name.
FieldOfKey(k) ==
    CASE k \in {"r", "m"} -> "MarketCap"
      [] k = "p" -> "PriceUSD"
      [] k = "1" -> "Change1h"
      [] k = "2" -> "Change24h"
      [] k = "7" -> "Change7d"
      [] k = "a" -> "Volume24h"
      [] k = "t" -> "TotalSupply"

\* field_k: the first character of the lowercased name, or the field.
KeyValue(k, r) == IF k = "n" THEN ToLower(r.Name)[1] ELSE r[FieldOfKey(k)]

\* C6: right after a sort event for key k the record sequence holds the same
\* records as before, and every adjacent pair (a before b) has
\* field_k(a) <= field_k(b) when the new direction is ascending and
\* field_k(a) >= field_k(b) when it is descending.
C6_SortResult ==
    [][\A k \in SortKeys :
         (KeySortOn(k) /\ pc' = "ui") =>
             /\ Len(records') = Len(records)
             /\ Range(records') = Range(records)
             /\ \A i \in 1..(Len(records') - 1) :
                   IF sortAsc'
                   THEN KeyValue(k, records'[i]) <= KeyValue(k, records'[i + 1])
                   ELSE KeyValue(k, records'[i]) >= KeyValue(k, records'[i + 1])]_vars

\* The snapshot with market caps 5, 1, 3 after "m" twice: 5, 3, 1.
C6_Witness ==
    /\ pc = "ui"
    /\ cache.content = DocShuffled
    /\ sortBy = "m" /\ ~sortAsc
    /\ [i \in 1..Len(records) |-> records[i].MarketCap] = <<5, 3, 1>>

\* C7: once a left, right or sort event has been handled, the page is at
\* least 1, the window start = (page-1)*perPage, end = min(page*perPage,
\* len(records)) has 0 <= start <= end <= len(records), the rows of the table
\* are exactly those of records[start:end], and the window is not empty
\* unless there are no records.
C7_PageWindow ==
    (pc = "ui" /\ handled) =>
        LET start == (page - 1) * perPage
            end == Min(page * perPage, Len(records))
        IN  /\ page >= 1
            /\ 0 <= start /\ start <= end /\ end <= Len(records)
            /\ table.rows = [i \in 1..(end - start) |-> Row(start + i, records[start + i])]
            /\ records # <<>> => start < end

\* C8: "right" adds exactly one to the page when page*perPage < len(records)
\* and leaves it otherwise, "left" takes exactly one off when page > 1 and
\* leaves it otherwise, and no other event moves the page; the page never
\* passes the last one; with 120 records and 50 per page, page 3 shows the
\* records 101 to 120 and "right" has nowhere to go.
C8_PageSteps ==
    /\ [][KeyRight => page' = (IF page * perPage < Len(records) THEN page + 1 ELSE page)]_vars
    /\ [][KeyLeft => page' = (IF page > 1 THEN page - 1 ELSE page)]_vars
    /\ [][(pc = "ui" /\ pc' = "ui" /\ page' # page) => (KeyRight \/ KeyLeft)]_vars
    /\ [](pc = "ui" => page >= 1 /\ (page = 1 \/ (page - 1) * perPage < Len(records)))
    /\ []((pc = "ui" /\ Len(records) = 120 /\ perPage = 50 /\ page = 3) =>
            /\ Len(table.rows) = 20
            /\ \A i \in 1..20 : table.rows[i] = Row(100 + i, records[100 + i])
            /\ ~ENABLED (KeyRight /\ page' # page))

\* Page 3 of 120 records: twenty rows, the first one of rank 101.
C8_Witness ==
    /\ pc = "ui"
    /\ Len(records) = 120 /\ perPage = 50 /\ page = 3
    /\ Len(table.rows) = 20
    /\ table.rows[1].Rank = 101

\* C9: in every state of the interactive loop, the table built at startup
\* included, the header of the active sort key's column carries the arrow of
\* the active direction and no other header carries a marker.
C9_HeaderDecoration ==
    pc = "ui" =>
        \A c \in 1..Len(table.columns) :
            table.columns[c].arrow =
                IF c = SortColumn(sortBy)
                THEN (IF sortAsc THEN "up" ELSE "down")
                ELSE ""

\* C10: GetRecords is invoked once per process, at its start, and has
\* returned without error before the loop handles anything; when it returns
\* an error the process logs it and ends with no table and never enters the
\* loop; no step of the loop calls the provider, makes an HTTP attempt or
\* writes the snapshot.
C10_StartupOrdering ==
    /\ [](pc # "off" => hist.calls = 1)
    /\ [][hist'.calls # hist.calls => (pc \in Ended /\ pc' = "stat")]_vars
    /\ [](pc = "ui" => result.err = "none" /\ hist.attempts = 0 /\ hist.writes = 0)
    /\ [](handled => pc = "ui")
    /\ [](pc = "fatal" =>
            /\ result.err # "none"
            /\ table = ZeroTable
            /\ log # <<>> /\ log[Len(log)] = LogEntry("Main - Get Records", TRUE))
    /\ [][(pc = "returned" /\ result.err # "none") => pc' = "fatal"]_vars
    /\ [][pc' = "ui" => (pc = "ui" \/ (pc = "returned" /\ result.err = "none"))]_vars
    /\ [][pc = "ui" =>
            /\ hist' = hist /\ cache' = cache /\ stored' = stored
            /\ pc' \in {"ui", "exited", "crashed"}]_vars

\* A process stopped by a failed fetch after five attempts, with no table.
C10_Witness ==
    /\ pc = "fatal"
    /\ hist.calls = 1 /\ hist.attempts = MaxRetries
    /\ result.err = "network"
    /\ table = ZeroTable

\* ------------------------------------------------------------------------
\* Failures of the fetch path
\* ------------------------------------------------------------------------
\* C11: when the response that ends the fetch sequence has a body that does
\* not decode as a record array, GetRecords returns an error with no records,
\* makes no attempt after that response, and leaves the snapshot file as the
\* call found it (same existence, content and permissions, only older).
C11_DecodeFailureIsTerminal ==
    /\ []((/\ pc = "returned"
           /\ hist.attempts >= 1
           /\ ~resp.err /\ resp.readOk
           /\ Unmarshal(resp.body, <<>>).err) =>
             /\ result.err = "decode"
             /\ result.recs = <<>>
             /\ hist.writes = 0
             /\ cache.exists = hist.entry.exists
             /\ cache.content = hist.entry.content
             /\ cache.readable = hist.entry.readable
             /\ cache.age >= hist.entry.age)
    /\ [][(pc = "returned" /\ result.err = "decode") =>
             (pc' = "fatal" /\ hist'.attempts = hist.attempts /\ cache' = cache)]_vars

\* The first response was an error object: the call failed and the stale
\* three-record snapshot is still there.
C11_Witness ==
    /\ pc = "returned"
    /\ result.err = "decode"
    /\ hist.qualifiedAt = 1
    /\ resp.body = DocErrorObject
    /\ hist.entry.exists /\ hist.entry.age = FreshSeconds
    /\ cache.content = DocRanked

\* C12: when the response decodes and os.WriteFile fails, GetRecords returns
\* the decoded records without error, exactly as when the write succeeds.
C12_WriteFailureAbsorbed ==
    (pc = "returned" /\ hist.writes = 1) =>
        /\ result.err = "none"
        /\ result.recs = Unmarshal(resp.body, Residual).coins

\* A write that failed after truncating the file: three records returned.
C12_Witness ==
    /\ pc = "returned"
    /\ hist.writes = 1 /\ ~hist.stored
    /\ cache.exists /\ cache.content = DocGarbage
    /\ result.err = "none" /\ Len(result.recs) = 3

\* C13: within one call every backoff sleep is followed by another attempt,
\* so there are at most four sleeps, and a call whose five attempts all fail
\* has slept 1+2+4+8 = 15 seconds when it returns.
C13_SleepsOnlyBetweenAttempts ==
    (pc = "returned" /\ hist.attempts >= 1) =>
        /\ Len(hist.sleeps) < hist.attempts
        /\ Len(hist.sleeps) <= MaxRetries - 1
        /\ hist.failures = MaxRetries => SumSeq(hist.sleeps) = 15

\* ------------------------------------------------------------------------
\* The log
\* ------------------------------------------------------------------------
\* C14: every GetRecords call has appended at least one log entry when it
\* returns, and the last one matches the outcome: the error entry of the
\* failed step when an error is returned, and a summary with the number of
\* returned records when records are returned (from the cache or fetched).
C14_OutcomeIsLogged ==
    pc = "returned" =>
        /\ log # <<>>
        /\ LET last == log[Len(log)] IN
           CASE result.err = "none" ->
                  /\ ~last.error
                  /\ last.count = Len(result.recs)
                  /\ last.op = (IF hist.attempts = 0 THEN "Cache Hit" ELSE "Fetch Records")
             [] result.err = "network" -> last.error /\ last.op = "API Request"
             [] result.err = "read" -> last.error /\ last.op = "Read Response Body"
             [] result.err = "decode" -> last.error /\ last.op = "Unmarshal Response"
             [] OTHER -> FALSE

\* A body that could not be read: the call's only entry is that error.
C14_Witness ==
    /\ pc = "returned"
    /\ result.err = "read"
    /\ Len(log) = 1 /\ log[1].error /\ log[1].op = "Read Response Body"

\* The operations GetRecords logs for the steps and the outcome of a fetch,
\* and for a cache hit.
FetchOperations ==
    {"API Request", "Read Response Body", "JSON Response", "Unmarshal Response",
     "Fetch Records", "Cache Hit"}

\* The call found a snapshot it could not use and went to the network.
ReadDegraded ==
    /\ hist.entry.exists
    /\ ~(EntryFresh /\ EntryDecodes)
    /\ hist.attempts >= 1

\* The call's os.WriteFile failed.
WriteFailed == hist.writes = 1 /\ ~hist.stored

\* C15: when a call falls through to the network because the snapshot is
\* stale, unreadable or undecodable, or when its snapshot write fails, the
\* call has appended a log entry that records the degradation (an entry other
\* than those of the fetch steps and outcome), and the error it returns, if
\* any, is one of the fetch path.
C15_DegradationsAreLogged ==
    (pc = "returned" /\ (ReadDegraded \/ WriteFailed)) =>
        /\ \E i \in 1..Len(log) : log[i].op \notin FetchOperations
        /\ result.err \in {"none", "network", "read", "decode"}

\* ------------------------------------------------------------------------
\* Overlapping processes
\* ------------------------------------------------------------------------
\* The record sequences some writer has written in full.
FullWrites ==
    (IF hist.entry.exists THEN {Unmarshal(hist.entry.content, <<>>).coins} ELSE {})
        \cup (IF other.pc = "done" THEN {other.recs} ELSE {})

\* What a call that has no snapshot makes of the response it got.
FetchedAfresh ==
    IF resp.err THEN [err |-> "network", recs |-> <<>>]
    ELSE IF ~resp.readOk THEN [err |-> "read", recs |-> <<>>]
    ELSE LET u == Unmarshal(resp.body, <<>>) IN
         IF u.err THEN [err |-> "decode", recs |-> <<>>]
         ELSE [err |-> "none", recs |-> u.coins]

C17_ViewFrames ==
    /\ [][(KeyRight \/ KeyLeft) =>
            (records' = records /\ sortBy' = sortBy /\ sortAsc' = sortAsc)]_vars
    /\ [][\A k \in SortKeys :
            (KeySortOn(k) /\ pc' = "ui") => (page' = page /\ perPage' = perPage)]_vars
    /\ [][(KeyEsc \/ KeyOther \/ Tick \/ Resize) =>
            /\ records' = records /\ page' = page
            /\ sortBy' = sortBy /\ sortAsc' = sortAsc]_vars

\* Page 2 of 120 records that were sorted by price, descending.
C17_Witness ==
    /\ pc = "ui"
    /\ Len(records) = 120
    /\ page = 2
    /\ sortBy = "p" /\ ~sortAsc
    /\ ~table.focused

\* The records are in the order key k gives in the direction asc.
OrderedBy(k, asc) ==
    \A i \in 1..(Len(records) - 1) :
        IF asc THEN KeyValue(k, records[i]) <= KeyValue(k, records[i + 1])
        ELSE KeyValue(k, records[i]) >= KeyValue(k, records[i + 1])

\* C18: in every state of the interactive loop in which a column header
\* carries a sort arrow, the record sequence is ordered by that column's key
\* in the arrow's direction.
C18_OrderAgreesWithMarker ==
    pc = "ui" =>
        \A k \in SortKeys :
            LET c == SortColumn(k) IN
            (c <= Len(table.columns) /\ table.columns[c].arrow # "") =>
                OrderedBy(k, table.columns[c].arrow = "up")

\* How often x is in seq.
Count(seq, x) == Cardinality({i \in 1..Len(seq) : seq[i] = x})

\* C19: for each of the nine keys and every record sequence, a sort event
\* completes, and the record sequence afterwards is a permutation of the one
\* before.
C19_SortIsTotal ==
    [][\A k \in SortKeys :
         KeySortOn(k) =>
             /\ pc' = "ui"
             /\ Len(records') = Len(records)
             /\ \A r \in Range(records) \cup Range(records') :
                   Count(records', r) = Count(records, r)]_vars

\* C20: a call that finds a fresh decodable snapshot returns its records
\* whatever page and page size it was called with, and a snapshot a call
\* writes holds the records' fields and nothing of the request.
C20_HitIgnoresRequest ==
    /\ (pc = "returned" /\ EntryFresh /\ EntryDecodes) =>
          /\ hist.attempts = 0
          /\ result.err = "none"
          /\ result.recs = Unmarshal(hist.entry.content, <<>>).coins
    /\ (pc = "returned" /\ hist.stored) =>
          /\ DOMAIN cache = {"exists", "readable", "content", "age"}
          /\ DOMAIN cache.content = {"top", "elems"}
          /\ cache.content.top = "array"
          /\ Len(cache.content.elems) = Len(result.recs)
          /\ \A i \in 1..Len(result.recs) :
                /\ DOMAIN cache.content.elems[i] = RecFields \cup {"extra"}
                /\ cache.content.elems[i].extra = JNull

\* Page 2 with 100 per page was asked for; the three records of the
\* snapshot came back with no attempt.
C20_Witness ==
    /\ pc = "returned"
    /\ request = [page |-> 2, perPage |-> 100]
    /\ hist.attempts = 0
    /\ Len(result.recs) = 3

====
